---------------------------- MODULE Spec2Model ----------------------------
(***************************************************************************)
(* A model of the API-key test harness of peeringdb                        *)
(* (tests/test_api_keys.py) and of schema migration 0072                   *)
(* (peeringdb_server/migrations/0072_add_fac_offered_fields.py).           *)
(*                                                                         *)
(* Four independent parts, each with a specification of its own:           *)
(*   SpecRdap      the RDAP lookup override (setup_module/teardown_module) *)
(*   SpecClient    DummyRestClientWithKeyAuth and DummyResponse            *)
(*   SpecApiKeys   the permission fixture, APITests.setUp and the          *)
(*                 rewritten DELETE-org test                               *)
(*   SpecMigration migration 0072 applied to facility records              *)
(* A part's variables keep their idle values under the other parts'        *)
(* specifications.                                                         *)
(***************************************************************************)
EXTENDS Integers, Sequences, FiniteSets, TLC

VARIABLES
    \* ---- RDAP override (module globals of test_api_keys / pdbinet) ----
    module_phase,        \* "imported", "set_up" or "torn_down": the last module-level call
    get_asn,             \* what pdbinet.RdapLookup.get_asn is bound to
    RdapLookup_get_asn,  \* the module global captured at import (line 18)
    override_result,     \* pdbinet.RdapLookup.override_result
    original_outcome,    \* what the original lookup does when it is called
    lookup,              \* the last call of RdapLookup().get_asn(asn)
    \* ---- one DummyRestClientWithKeyAuth and its last _request ----
    init_kwargs,         \* the keyword arguments the client was constructed with
    client,              \* the client object
    call_args,           \* the arguments of the last _request
    sent,                \* what that call handed to the APIClient
    api_res,             \* the response the APIClient gave back
    returned,            \* what _request returned (or raised)
    \* ---- the APITests test case and its database ----
    test_phase,          \* "loaded", "class_ready" (setUpTestData done) or "in_test"
    SUGGEST_ENTITY_ORG,  \* settings.SUGGEST_ENTITY_ORG
    group_perms,         \* GroupPermission rows: group -> set of grants
    user_perms,          \* the grants each user holds
    orgs,                \* the ids of the organizations in the database
    api_keys,            \* the API keys issued: key -> [org, user, perms]
    db_clients,          \* self.db_user, self.db_org_admin, self.db_org_member
    last_request,        \* the last request a test client made, the organizations
                         \* there were, and the status it was answered with
    delete_test,         \* the outcome of test_zz_org_admin_004_DELETE_org
    \* ---- the facility table and migration 0072 ----
    applied,             \* whether migration 0072 has been applied
    fac_fields,          \* the fields of the facility model: name -> field
    facilities,          \* the facility records
    save_result          \* the outcome of the last create, save or migrate

rdapVars == <<module_phase, get_asn, RdapLookup_get_asn, override_result,
              original_outcome, lookup>>

clientVars == <<init_kwargs, client, call_args, sent, api_res, returned>>

keyVars == <<test_phase, SUGGEST_ENTITY_ORG, group_perms, user_perms, orgs, api_keys,
             db_clients, last_request, delete_test>>

migVars == <<applied, fac_fields, facilities, save_result>>

vars == <<rdapVars, clientVars, keyVars, migVars>>

(***************************************************************************)
(* Python values: None, str and tuple objects, told apart by their type.   *)
(***************************************************************************)
PyNone == [type |-> "NoneType", value |-> "None"]

PyStr(s) == [type |-> "str", value |-> s]

PyInt(n) == [type |-> "int", value |-> n]

PyTuple(a, b) == [type |-> "tuple", value |-> <<a, b>>]

\* Python truth of a value: None, "" and 0 are false.
Truthy(v) ==
    CASE v.type = "NoneType" -> FALSE
      [] v.type = "str" -> v.value # ""
      [] v.type = "int" -> v.value # 0
      [] OTHER -> TRUE

(***************************************************************************)
(*                         RDAP LOOKUP OVERRIDE                            *)
(***************************************************************************)

\* range(9000000, 9000999): the first ASN of the override range, and the
\* first ASN past it.
ASN_RANGE_START == 9000000

ASN_RANGE_STOP == 9000999

ASN_RANGE_OVERRIDE == ASN_RANGE_START .. (ASN_RANGE_STOP - 1)

\* The ASNs the lookups of the model are made with: both ends of the
\* override range and their neighbours, private-use and documentation
\* ASNs, and ordinary public ones.
SampleASNs ==
    {1, 64496, 64511, 64512, 65534, 65535,
     8999999, 9000000, 9000001, 9000998, 9000999, 9001000}

\* pdbinet.asn_is_bogon: the private-use and documentation ranges (the
\* function's body is not part of the test module; the 32-bit private
\* range is left out).
asn_is_bogon(asn) ==
    \/ asn \in 64496 .. 64511
    \/ asn \in 64512 .. 65534
    \/ asn \in 65536 .. 65551

\* What the original RdapLookup.get_asn may do when it is called: its body
\* is outside the test module, so its outcome is left open.
OriginalOutcomes == {"RdapAsn", "RdapException", "RdapNotFoundError"}

NoLookup == [bound |-> "none", by |-> "none", asn |-> 0, outcome |-> "none", payload |-> "none"]

\* The original pdbinet.RdapLookup.get_asn, as the test module sees it.
original_get_asn(bound, asn) ==
    [bound |-> bound, by |-> "original", asn |-> asn,
     outcome |-> original_outcome, payload |-> "rdap"]

\* The function setup_module defines (lines 39-45).
override_get_asn(bound, asn) ==
    IF asn \in ASN_RANGE_OVERRIDE
    THEN [bound |-> bound, by |-> "override", asn |-> asn,
          outcome |-> "RdapAsn", payload |-> override_result]
    ELSE IF asn_is_bogon(asn)
         THEN original_get_asn(bound, asn)
         ELSE [bound |-> bound, by |-> "override", asn |-> asn,
               outcome |-> "RdapNotFoundError", payload |-> "none"]

setup_module ==
    /\ override_result' = "rdap_override.json"
    /\ get_asn' = "override"
    /\ module_phase' = "set_up"
    /\ UNCHANGED <<RdapLookup_get_asn, original_outcome, lookup>>

\* A mutant of teardown_module: the function put back is the one bound
\* when teardown_module runs.
teardown_module_keeps_binding ==
    /\ get_asn' = get_asn
    /\ module_phase' = "torn_down"
    /\ UNCHANGED <<RdapLookup_get_asn, override_result, original_outcome, lookup>>

teardown_module ==
    /\ get_asn' = RdapLookup_get_asn
    /\ module_phase' = "torn_down"
    /\ UNCHANGED <<RdapLookup_get_asn, override_result, original_outcome, lookup>>

\* A caller looks an ASN up through whatever get_asn is bound to.
Lookup(asn) ==
    /\ lookup' = IF get_asn = "override"
                 THEN override_get_asn(get_asn, asn)
                 ELSE original_get_asn(get_asn, asn)
    /\ UNCHANGED <<module_phase, get_asn, RdapLookup_get_asn, override_result,
                   original_outcome>>

\* The module as imported: line 18 has captured the original function.
RdapInit ==
    /\ module_phase = "imported"
    /\ get_asn = "original"
    /\ RdapLookup_get_asn = "original"
    /\ override_result = "unset"
    /\ original_outcome \in OriginalOutcomes
    /\ lookup = NoLookup

RdapIdle ==
    /\ module_phase = "imported"
    /\ get_asn = "original"
    /\ RdapLookup_get_asn = "original"
    /\ override_result = "unset"
    /\ original_outcome = "RdapException"
    /\ lookup = NoLookup

(***************************************************************************)
(*              DummyRestClientWithKeyAuth AND DummyResponse               *)
(***************************************************************************)

\* An argument left out of a call.
Omitted == [type |-> "omitted", value |-> "omitted"]

\* The value of an argument, given the default of its parameter.
Arg(a, default) == IF a.type = "omitted" THEN default ELSE a

\* A dict with string keys, as a function.
PyDict(f) == [type |-> "dict", value |-> f]

EmptyDict == [k \in {} |-> ""]

\* `not data` for None or a dict.
NotTruthyDict(d) == d.type = "NoneType" \/ DOMAIN d.value = {}

\* data.update(**params)
DictUpdate(d, p) ==
    [k \in DOMAIN d \cup DOMAIN p |-> IF k \in DOMAIN p THEN p[k] ELSE d[k]]

NoUser == "None"

NoClient ==
    [raised |-> "unconstructed", user |-> PyNone, user_inst |-> NoUser,
     key |-> PyNone, credentials |-> {}, force_user |-> NoUser]

\* A mutant of the constructor: the user is force-authenticated whether or
\* not a key is given.
DummyRestClientWithKeyAuth_init_always_forces(kwargs) ==
    LET user_inst == IF Truthy(kwargs.user) THEN kwargs.user.value ELSE "guest"
        base == [raised |-> "none", user |-> kwargs.user, user_inst |-> user_inst,
                 key |-> PyNone, credentials |-> {}, force_user |-> user_inst]
    IN  IF kwargs.key.type # "NoneType"
        THEN IF kwargs.key.type = "str"
             THEN [base EXCEPT !.key = kwargs.key,
                               !.credentials =
                                   {<<"HTTP_AUTHORIZATION", "Api-Key " \o kwargs.key.value>>}]
             ELSE [NoClient EXCEPT !.raised = "TypeError"]
        ELSE base

\* DummyRestClientWithKeyAuth.__init__ (lines 84-102).  RestClient.__init__
\* has set self.user from the keyword arguments (None when not given).
\* "Api-Key " + self.key raises TypeError unless the key is a str.
DummyRestClientWithKeyAuth_init(kwargs) ==
    LET user_inst == IF Truthy(kwargs.user) THEN kwargs.user.value ELSE "guest"
        base == [raised |-> "none", user |-> kwargs.user, user_inst |-> user_inst,
                 key |-> PyNone, credentials |-> {}, force_user |-> NoUser]
    IN  IF kwargs.key.type # "NoneType"
        THEN IF kwargs.key.type = "str"
             THEN [base EXCEPT !.key = kwargs.key,
                               !.credentials =
                                   {<<"HTTP_AUTHORIZATION", "Api-Key " \o kwargs.key.value>>}]
             ELSE [NoClient EXCEPT !.raised = "TypeError"]
        ELSE [base EXCEPT !.force_user = user_inst]

\* str.lower() on the method names the harness uses.
Lower(method) ==
    CASE method = "GET" -> "get"
      [] method = "POST" -> "post"
      [] method = "PUT" -> "put"
      [] method = "DELETE" -> "delete"
      [] OTHER -> method

\* A mutant of the url construction: the id is appended whenever it is not
\* None.
request_url_appends_zero(typ, id, url) ==
    IF ~Truthy(url)
    THEN IF id.type # "NoneType"
         THEN "/api/" \o typ \o "/" \o ToString(id.value)
         ELSE "/api/" \o typ
    ELSE url.value

\* The url of a request (lines 105-109).
request_url(typ, id, url) ==
    IF ~Truthy(url)
    THEN IF Truthy(id)
         THEN "/api/" \o typ \o "/" \o ToString(id.value)
         ELSE "/api/" \o typ
    ELSE url.value

\* The payload of a request (lines 112-115).
request_data(data, params) ==
    LET d == IF NotTruthyDict(data) THEN EmptyDict ELSE data.value
    IN  IF ~NotTruthyDict(params) THEN DictUpdate(d, params.value) ELSE d

\* What _request hands to the APIClient (lines 111, 117): the verb is the
\* client's method of that name, the credentials go along as extra headers,
\* and the client's handler carries the forced user.
request_sent(c, a) ==
    [verb |-> Lower(Arg(a.method, PyStr("GET")).value),
     url |-> request_url(a.typ, Arg(a.id, PyInt(0)), Arg(a.url, PyNone)),
     data |-> request_data(Arg(a.data, PyNone), Arg(a.params, PyNone)),
     format |-> "json",
     extra |-> c.credentials,
     force_user |-> c.force_user]

\* DummyResponse.__init__ (lines 59-62)
DummyResponse_init(status_code, content) ==
    [raised |-> "none", status_code |-> status_code, content |-> content,
     headers |-> EmptyDict]

Raised(exc) ==
    [raised |-> exc, status_code |-> 0, content |-> "", headers |-> EmptyDict]

NoResponse == Raised("nothing")

\* json.loads on the bodies the model's API answers with; anything else is
\* not JSON.
json_loads(content) ==
    CASE content = "{\"data\": []}" -> [raised |-> "none", type |-> "dict", keys |-> <<"data">>, items |-> <<>>]
      [] content = "[1, 2]" -> [raised |-> "none", type |-> "list", keys |-> <<>>, items |-> <<1, 2>>]
      [] OTHER -> [raised |-> "JSONDecodeError", type |-> "none", keys |-> <<>>, items |-> <<>>]

\* DummyResponse.data (lines 64-66)
DummyResponse_data(r) == json_loads(r.content)

\* DummyResponse.read (lines 68-69)
DummyResponse_read(r) == r.content

\* DummyResponse.json (lines 74-75)
DummyResponse_json(r) == DummyResponse_data(r)

\* A mutant of the end of _request: the charset is not checked.
request_return_unchecked(res) == DummyResponse_init(res.status_code, res.content)

\* The end of _request (lines 119-121).
request_return(res) ==
    IF res.charset # "utf-8"
    THEN Raised("AssertionError")
    ELSE DummyResponse_init(res.status_code, res.content)

MaxId == 1

SampleKwargs ==
    [user : {PyNone, PyStr("api_test")},
     key  : {PyNone, PyStr("key1"), PyStr("key2"), PyStr(""), PyTuple("api_key", "key1")}]

SampleArgs ==
    [typ    : {"org", "net"},
     id     : {Omitted} \cup {PyInt(i) : i \in 0 .. MaxId},
     method : {Omitted, PyStr("DELETE")},
     params : {Omitted, PyDict([depth |-> "1"])},
     data   : {Omitted},
     url    : {Omitted, PyStr(""), PyStr("/api/fac/7")}]

SampleResponses ==
    [status_code : {200, 403},
     content     : {"{\"data\": []}", "[1, 2]", ""},
     charset     : {"utf-8"}]
    \cup
    [status_code : {200},
     content     : {"{\"data\": []}"},
     charset     : {"iso-8859-1"}]

NoArgs ==
    [typ |-> "", id |-> Omitted, method |-> Omitted, params |-> Omitted,
     data |-> Omitted, url |-> Omitted]

NoSent ==
    [verb |-> "", url |-> "", data |-> EmptyDict, format |-> "", extra |-> {},
     force_user |-> NoUser]

NoApiRes == [status_code |-> 0, content |-> "", charset |-> ""]

\* A test constructs the client.
Construct(kwargs) ==
    /\ client.raised = "unconstructed"
    /\ init_kwargs' = kwargs
    /\ client' = DummyRestClientWithKeyAuth_init(kwargs)
    /\ UNCHANGED <<call_args, sent, api_res, returned>>

\* DummyRestClientWithKeyAuth._request (lines 104-121); res is the answer
\* of the API to the request sent.
Request(a, res) ==
    /\ client.raised = "none"
    /\ call_args' = a
    /\ sent' = request_sent(client, a)
    /\ api_res' = res
    /\ returned' = request_return(res)
    /\ UNCHANGED <<init_kwargs, client>>

ClientInit ==
    /\ init_kwargs = [user |-> PyNone, key |-> PyNone]
    /\ client = NoClient
    /\ call_args = NoArgs
    /\ sent = NoSent
    /\ api_res = NoApiRes
    /\ returned = NoResponse

(***************************************************************************)
(*          NAMESPACE PERMISSIONS, THE FIXTURE AND APITests.setUp          *)
(***************************************************************************)

\* Permission flags (a bitmask).
PERM_READ == 1

PERM_UPDATE == 2

PERM_CREATE == 4

PERM_DELETE == 8

PERM_CRUD == 15

HasFlag(permission, flag) == (permission \div flag) % 2 = 1

\* A GrainyPermission row; a namespace is the sequence of its dot-delimited
\* segments.
Grant(namespace, permission) == [namespace |-> namespace, permission |-> permission]

\* A namespace pattern matches a path when each of its segments is "*" or
\* the path's segment at that place; a path below a matched one is matched.
Matches(pattern, path) ==
    /\ Len(pattern) <= Len(path)
    /\ \A i \in 1 .. Len(pattern) : pattern[i] = "*" \/ pattern[i] = path[i]

RECURSIVE ExactSegments(_)
ExactSegments(pattern) ==
    IF pattern = <<>> THEN 0
    ELSE (IF Head(pattern) = "*" THEN 0 ELSE 1) + ExactSegments(Tail(pattern))

\* How specific a pattern is: a longer pattern is more specific, and of two
\* patterns of one length the one with fewer wildcards.
Specificity(pattern) == Len(pattern) * 16 + ExactSegments(pattern)

\* The resolver: the flag of the most specific pattern among the grants
\* that matches the path, and no permission when none does.
Resolve(grants, path) ==
    LET matching == {g \in grants : Matches(g.namespace, path)}
    IN  IF matching = {} THEN 0
        ELSE (CHOOSE g \in matching :
                \A h \in matching :
                    Specificity(h.namespace) <= Specificity(g.namespace)).permission

MaxOrgId == 3

OrgIds == 1 .. MaxOrgId

\* The organizations cls.prepare() creates, and the one the DELETE test
\* creates.
ORG_RW == 1

ORG_R == 2

DeletableOrg == MaxOrgId + 1

OrgNamespace(id) == <<"peeringdb", "organization", ToString(id)>>

ManageNamespace(id) == <<"peeringdb", "manage_organization", ToString(id)>>

AdminGroup(id) == "org." \o ToString(id) \o ".admin"

MemberGroup(id) == "org." \o ToString(id)

Groups == {"guest", "user"} \cup {AdminGroup(o) : o \in {ORG_RW, ORG_R}}
               \cup {MemberGroup(o) : o \in {ORG_RW, ORG_R}}

UserNames == {"api_test", "api_test_org_admin", "api_test_org_member"}

\* The grants cls.prepare() may leave an organization's admin group and
\* member group with, and a user with (prepare is not part of the test
\* module; a namespace occurs once among a holder's grants).
AdminGrantChoices(id) ==
    {{Grant(OrgNamespace(id), PERM_CRUD), Grant(ManageNamespace(id), PERM_CRUD)},
     {Grant(OrgNamespace(id), PERM_CRUD)},
     {Grant(OrgNamespace(id), PERM_READ + PERM_UPDATE), Grant(ManageNamespace(id), PERM_CRUD)}}

MemberGrantChoices(id) ==
    {{Grant(OrgNamespace(id), PERM_READ)}, {}}

UserGrantChoices ==
    {{}, {Grant(<<"peeringdb", "organization">>, PERM_CRUD)}}

\* The GroupPermission rows setUpTestData creates for the guest group
\* (lines 162-170).
GuestGroupGrants ==
    {Grant(<<"peeringdb", "organization">>, 1),
     Grant(<<"peeringdb", "organization", "*", "internetexchange", "*",
             "ixf_ixp_member_list_url", "public">>, 1)}

\* A mutant of the fixture: the grant on the suggest organization carries
\* the read flag.
UserGroupGrants_suggest_read(suggest) ==
    {Grant(<<"peeringdb", "organization">>, 1),
     Grant(<<"peeringdb", "organization", ToString(suggest)>>, 1),
     Grant(<<"peeringdb", "organization", "*", "network", "*", "poc_set", "users">>, 1),
     Grant(<<"peeringdb", "organization", "*", "internetexchange", "*",
             "ixf_ixp_member_list_url", "public">>, 1),
     Grant(<<"peeringdb", "organization", "*", "internetexchange", "*",
             "ixf_ixp_member_list_url", "users">>, 1)}

\* The GroupPermission rows setUpTestData creates for the user group
\* (lines 172-198).
UserGroupGrants(suggest) ==
    {Grant(<<"peeringdb", "organization">>, 1),
     Grant(<<"peeringdb", "organization", ToString(suggest)>>, 4),
     Grant(<<"peeringdb", "organization", "*", "network", "*", "poc_set", "users">>, 1),
     Grant(<<"peeringdb", "organization", "*", "internetexchange", "*",
             "ixf_ixp_member_list_url", "public">>, 1),
     Grant(<<"peeringdb", "organization", "*", "internetexchange", "*",
             "ixf_ixp_member_list_url", "users">>, 1)}

NoGroupPerms == [g \in Groups |-> {}]

NoUserPerms == [u \in UserNames |-> {}]

\* APITests.setUpTestData (lines 151-201); cls.prepare() leaves the two
\* test organizations' groups and the three test users with grants.
setUpTestData ==
    /\ test_phase = "loaded"
    /\ \E rw_admin \in AdminGrantChoices(ORG_RW), r_member \in MemberGrantChoices(ORG_R) :
          group_perms' =
              [g \in Groups |->
                  CASE g = "guest" -> GuestGroupGrants
                    [] g = "user" -> UserGroupGrants(SUGGEST_ENTITY_ORG)
                    [] g = AdminGroup(ORG_RW) -> rw_admin
                    [] g = MemberGroup(ORG_RW) -> {Grant(OrgNamespace(ORG_RW), PERM_READ)}
                    [] g = AdminGroup(ORG_R) -> {Grant(OrgNamespace(ORG_R), PERM_CRUD)}
                    [] OTHER -> r_member]
    /\ user_perms' \in [UserNames -> UserGrantChoices]
    /\ orgs' = OrgIds
    /\ test_phase' = "class_ready"
    /\ UNCHANGED <<SUGGEST_ENTITY_ORG, api_keys, db_clients, last_request, delete_test>>

\* create_key: a new key with no permission of its own; the call returns the
\* pair (key object, key string).
create_key(keys, key, org, user) ==
    [k \in DOMAIN keys \cup {key} |->
        IF k = key THEN [org |-> org, user |-> user, perms |-> {}] ELSE keys[k]]

create_key_result(key) == PyTuple(key, key)

\* grainy_permissions.add_permission(namespace, permission): the holder's
\* grant on the namespace is set to the permission.
add_permission(perms, namespace, permission) ==
    {g \in perms : g.namespace # namespace} \cup {Grant(namespace, permission)}

\* A mutant of the transfer loop: every permission is added as read-only.
RECURSIVE transfer_permissions_read_only(_, _)
transfer_permissions_read_only(from, to) ==
    IF from = {} THEN to
    ELSE LET perm == CHOOSE g \in from : TRUE
         IN  transfer_permissions_read_only(from \ {perm},
                 add_permission(to, perm.namespace, PERM_READ))

\* The loops of setUp (lines 220-223 and 236-237).
RECURSIVE transfer_permissions(_, _)
transfer_permissions(from, to) ==
    IF from = {} THEN to
    ELSE LET perm == CHOOSE g \in from : TRUE
         IN  transfer_permissions(from \ {perm},
                 add_permission(to, perm.namespace, perm.permission))

ClientNames == {"db_user", "db_org_admin", "db_org_member"}

NoClients == [c \in ClientNames |-> NoClient]

NoKeys == [k \in {} |-> [org |-> 0, user |-> NoUser, perms |-> {}]]

\* APITests.setUp (lines 203-241)
setUp ==
    /\ test_phase = "class_ready"
    /\ LET k1 == create_key(api_keys, "user_key", 0, "api_test")
           k2 == create_key(k1, "rw_org_key", ORG_RW, NoUser)
           k3 == [k2 EXCEPT !["rw_org_key"].perms =
                     transfer_permissions(group_perms[AdminGroup(ORG_RW)], @)]
           k4 == create_key(k3, "r_org_key", ORG_R, NoUser)
           k5 == [k4 EXCEPT !["r_org_key"].perms =
                     transfer_permissions(group_perms[MemberGroup(ORG_R)], @)]
       IN  /\ api_keys' = k5
           /\ db_clients' =
                 [c \in ClientNames |->
                    CASE c = "db_user" ->
                           DummyRestClientWithKeyAuth_init(
                               [user |-> PyStr("api_test"), key |-> PyStr("user_key")])
                      [] c = "db_org_admin" ->
                           DummyRestClientWithKeyAuth_init(
                               [user |-> PyStr("api_test_org_admin"), key |-> PyStr("rw_org_key")])
                      [] OTHER ->
                           DummyRestClientWithKeyAuth_init(
                               [user |-> PyStr("api_test_org_member"), key |-> PyStr("r_org_key")])]
    /\ test_phase' = "in_test"
    /\ UNCHANGED <<SUGGEST_ENTITY_ORG, group_perms, user_perms, orgs, last_request,
                   delete_test>>

\* The API server, as far as the tests see it: who the request is made as,
\* which organization it addresses, and whether the permission the verb
\* needs is held there.  A forced user takes the place of any credentials;
\* otherwise an Api-Key header names the key whose permissions count, and a
\* request with neither is made as a guest.
RequestGrants(keys, req) ==
    IF req.force_user # NoUser
    THEN IF req.force_user \in UserNames THEN user_perms[req.force_user]
         ELSE group_perms["guest"]
    ELSE LET named == {k \in DOMAIN keys :
                          <<"HTTP_AUTHORIZATION", "Api-Key " \o k>> \in req.extra}
         IN  IF named = {} THEN group_perms["guest"]
             ELSE keys[CHOOSE k \in named : TRUE].perms

RequiredFlag(verb) ==
    CASE verb = "get" -> PERM_READ
      [] verb = "put" -> PERM_UPDATE
      [] verb = "post" -> PERM_CREATE
      [] verb = "delete" -> PERM_DELETE
      [] OTHER -> PERM_CRUD

\* The status the API answers a request on an organization with, given the
\* grants the request is decided by.
Decide(grants, existing, req) ==
    LET addressed == {id \in existing : req.url = "/api/org/" \o ToString(id)}
    IN  IF addressed = {} THEN 404
        ELSE LET id == CHOOSE i \in addressed : TRUE
             IN  IF HasFlag(Resolve(grants, OrgNamespace(id)), RequiredFlag(req.verb))
                 THEN (IF req.verb = "delete" THEN 204 ELSE 200)
                 ELSE 403

Serve(keys, existing, req) == Decide(RequestGrants(keys, req), existing, req)

\* The requests the tests make on organizations.
TestArgs ==
    [typ    : {"org"},
     id     : {PyInt(i) : i \in 1 .. DeletableOrg},
     method : {Omitted, PyStr("PUT"), PyStr("DELETE")},
     params : {Omitted},
     data   : {Omitted},
     url    : {Omitted}]

NoRequest ==
    [client |-> "none", args |-> NoArgs, sent |-> NoSent, existing |-> {}, status |-> 0]

NotRun == [ran |-> FALSE, raised |-> "none", status |-> 0]

\* A test sends a request through one of its clients.
ClientRequest(c, a) ==
    /\ test_phase = "in_test"
    /\ db_clients[c].raised = "none"
    /\ LET req == request_sent(db_clients[c], a)
       IN  last_request' = [client |-> c, args |-> a, sent |-> req, existing |-> orgs,
                            status |-> Serve(api_keys, orgs, req)]
    /\ UNCHANGED <<test_phase, SUGGEST_ENTITY_ORG, group_perms, user_perms, orgs, api_keys,
                   db_clients, delete_test>>

\* The attribute self.org of the test case.  Nothing in the test module
\* sets it; whether the base classes do is not visible there, so it is
\* either absent or one of the two organizations the test module names.
NoAttribute == 0

SelfOrgChoices == {NoAttribute, ORG_RW, ORG_R}

\* The body of test_zz_org_admin_004_DELETE_org (lines 251-269) for one value
\* of self.org.  The organization is created first (line 256); evaluating
\* self.org for create_key (line 258) raises AttributeError when the
\* attribute is absent, and then no key is created and no client is built.
\* Otherwise the pair create_key returns is passed on as the key (line 261)
\* and assert_delete expects the DELETE to be answered 204.
delete_org_test(self_org) ==
    LET org == DeletableOrg
        keys == create_key(api_keys, "new_key", self_org, NoUser)
        org_key == create_key_result("new_key")
        new_org_admin == DummyRestClientWithKeyAuth_init(
                             [user |-> PyStr("api_test_org_admin"), key |-> org_key])
        a == [typ |-> "org", id |-> PyInt(org), method |-> PyStr("DELETE"),
              params |-> Omitted, data |-> Omitted, url |-> Omitted]
    IN  IF self_org = NoAttribute
        THEN [orgs |-> orgs \cup {org}, api_keys |-> api_keys,
              result |-> [ran |-> TRUE, raised |-> "AttributeError", status |-> 0]]
        ELSE [orgs |-> orgs \cup {org}, api_keys |-> keys,
              result |->
                 IF new_org_admin.raised # "none"
                 THEN [ran |-> TRUE, raised |-> new_org_admin.raised, status |-> 0]
                 ELSE LET status == Serve(keys, orgs \cup {org},
                                          request_sent(new_org_admin, a))
                      IN  [ran |-> TRUE,
                           raised |-> IF status = 204 THEN "none" ELSE "AssertionError",
                           status |-> status]]

\* APITests.test_zz_org_admin_004_DELETE_org (lines 251-269).
test_zz_org_admin_004_DELETE_org ==
    /\ test_phase = "in_test"
    /\ ~delete_test.ran
    /\ \E self_org \in SelfOrgChoices :
          LET out == delete_org_test(self_org)
          IN  /\ orgs' = out.orgs
              /\ api_keys' = out.api_keys
              /\ delete_test' = out.result
    /\ UNCHANGED <<test_phase, SUGGEST_ENTITY_ORG, group_perms, user_perms, db_clients,
                   last_request>>

\* The end of a test: the test's transaction is rolled back and its clients
\* are gone.
tearDown ==
    /\ test_phase = "in_test"
    /\ test_phase' = "class_ready"
    /\ orgs' = OrgIds
    /\ api_keys' = NoKeys
    /\ db_clients' = NoClients
    /\ last_request' = NoRequest
    /\ delete_test' = NotRun
    /\ UNCHANGED <<SUGGEST_ENTITY_ORG, group_perms, user_perms>>

KeysInit ==
    /\ test_phase = "loaded"
    /\ SUGGEST_ENTITY_ORG \in OrgIds
    /\ group_perms = NoGroupPerms
    /\ user_perms = NoUserPerms
    /\ orgs = {}
    /\ api_keys = NoKeys
    /\ db_clients = NoClients
    /\ last_request = NoRequest
    /\ delete_test = NotRun

KeysIdle ==
    /\ test_phase = "loaded"
    /\ SUGGEST_ENTITY_ORG = 1
    /\ group_perms = NoGroupPerms
    /\ user_perms = NoUserPerms
    /\ orgs = {}
    /\ api_keys = NoKeys
    /\ db_clients = NoClients
    /\ last_request = NoRequest
    /\ delete_test = NotRun

(***************************************************************************)
(*                MIGRATION 0072 AND THE FACILITY TABLE                    *)
(***************************************************************************)

\* A model field: its class, blank, null, default, choices (pairs of value
\* and label; none for a field without choices) and max_length.
Field(kind, blank, null, default, choices, max_length) ==
    [kind |-> kind, blank |-> blank, null |-> null, default |-> default,
     choices |-> choices, max_length |-> max_length]

AddField(model_name, name, field) ==
    [op |-> "AddField", model_name |-> model_name, name |-> name, field |-> field]

\* A mutant of the migration: the offered power may not be left blank.
Migration_operations_power_required ==
    << AddField("facility", "offered_power",
           Field("PositiveIntegerField", FALSE, TRUE, PyNone, {}, 0)),
       AddField("facility", "offered_resilience",
           Field("CharField", TRUE, FALSE, PyStr(""),
                 { <<"", "Not Disclosed">>,
                   <<"Not Disclosed", "Not Disclosed">>,
                   <<"None (Best Effort)", "None (Best Effort)">>,
                   <<"N+1", "N+1">>,
                   <<"2N", "2N">> },
                 64)),
       AddField("facility", "offered_space",
           Field("PositiveIntegerField", TRUE, TRUE, PyNone, {}, 0)) >>

\* A mutant of the migration: the choice "2N" is missing.
Migration_operations_without_2N ==
    << AddField("facility", "offered_power",
           Field("PositiveIntegerField", TRUE, TRUE, PyNone, {}, 0)),
       AddField("facility", "offered_resilience",
           Field("CharField", TRUE, FALSE, PyStr(""),
                 { <<"", "Not Disclosed">>,
                   <<"Not Disclosed", "Not Disclosed">>,
                   <<"None (Best Effort)", "None (Best Effort)">>,
                   <<"N+1", "N+1">> },
                 64)),
       AddField("facility", "offered_space",
           Field("PositiveIntegerField", TRUE, TRUE, PyNone, {}, 0)) >>

\* Migration.operations (lines 12-52)
Migration_operations ==
    << AddField("facility", "offered_power",
           Field("PositiveIntegerField", TRUE, TRUE, PyNone, {}, 0)),
       AddField("facility", "offered_resilience",
           Field("CharField", TRUE, FALSE, PyStr(""),
                 { <<"", "Not Disclosed">>,
                   <<"Not Disclosed", "Not Disclosed">>,
                   <<"None (Best Effort)", "None (Best Effort)">>,
                   <<"N+1", "N+1">>,
                   <<"2N", "2N">> },
                 64)),
       AddField("facility", "offered_space",
           Field("PositiveIntegerField", TRUE, TRUE, PyNone, {}, 0)) >>

\* The fields the migration adds.
AddedFields == {Migration_operations[i].name : i \in DOMAIN Migration_operations}

\* The facility model before the migration, as far as the model follows
\* it: a required name.
FieldsBefore == [f \in {"name"} |-> Field("CharField", FALSE, FALSE, PyStr(""), {}, 255)]

\* One AddField applied to the table: the model gains the field and every
\* record gains the field's default.
apply_AddField(state, operation) ==
    [fields |-> [f \in DOMAIN state.fields \cup {operation.name} |->
                    IF f = operation.name THEN operation.field ELSE state.fields[f]],
     rows |-> [i \in DOMAIN state.rows |->
                    [f \in DOMAIN state.rows[i] \cup {operation.name} |->
                        IF f = operation.name THEN operation.field.default
                        ELSE state.rows[i][f]]]]

RECURSIVE apply_operations(_, _)
apply_operations(state, operations) ==
    IF operations = <<>> THEN state
    ELSE apply_operations(apply_AddField(state, Head(operations)), Tail(operations))

IsEmptyValue(v) == v.type = "NoneType" \/ (v.type = "str" /\ v.value = "")

\* Field.clean: the code of the first error, or "ok".
clean_field(field, v) ==
    CASE field.kind = "PositiveIntegerField" /\ v.type \notin {"NoneType", "int"} -> "invalid"
      [] field.choices # {} /\ ~IsEmptyValue(v)
            /\ (v.type # "str" \/ \A c \in field.choices : c[1] # v.value) -> "invalid_choice"
      [] v.type = "NoneType" /\ ~field.null -> "null"
      [] ~field.blank /\ IsEmptyValue(v) -> "blank"
      [] field.kind = "PositiveIntegerField" /\ v.type = "int" /\ v.value < 0 -> "min_value"
      [] field.kind = "CharField" /\ v.type = "str" /\ Len(v.value) > field.max_length -> "max_length"
      [] OTHER -> "ok"

\* Model.full_clean: the fields in error.
clean_errors(fields, record) ==
    {f \in DOMAIN fields : clean_field(fields[f], record[f]) # "ok"}

\* A new record: the values supplied, and the default of every other field.
new_record(fields, supplied) ==
    [f \in DOMAIN fields |-> IF f \in DOMAIN supplied THEN supplied[f] ELSE fields[f].default]

\* A record with some of its fields set.
changed_record(record, supplied) ==
    [f \in DOMAIN record |-> IF f \in DOMAIN supplied THEN supplied[f] ELSE record[f]]

MaxFacilities == 2

\* The values a caller supplies: a name or none, and for each added field
\* nothing, an acceptable value or an unacceptable one.
SampleNames == {PyStr("Fac A"), PyStr("Fac B")}

SamplePower == {PyInt(7), PyInt(-1)}

SampleResilience == {PyStr("2N"), PyStr("Tier 9")}

Supplied(names, power, resilience) ==
    LET given == (IF names = {} THEN {} ELSE {"name"})
                 \cup (IF power = {} THEN {} ELSE {"offered_power"})
                 \cup (IF resilience = {} THEN {} ELSE {"offered_resilience"})
    IN  [f \in given |->
            CASE f = "name" -> CHOOSE v \in names : TRUE
              [] f = "offered_power" -> CHOOSE v \in power : TRUE
              [] OTHER -> CHOOSE v \in resilience : TRUE]

SampleSupplied ==
    {Supplied(n, p, r) :
        n \in {{}} \cup {{v} : v \in SampleNames},
        p \in {{}} \cup {{v} : v \in SamplePower},
        r \in {{}} \cup {{v} : v \in SampleResilience}}

Outcome(op, supplied, errors) ==
    [op |-> op, supplied |-> DOMAIN supplied, errors |-> errors]

\* The migration is applied (migrate): the operations in order.
Migrate ==
    /\ ~applied
    /\ LET after == apply_operations([fields |-> fac_fields, rows |-> facilities],
                                     Migration_operations)
       IN  /\ fac_fields' = after.fields
           /\ facilities' = after.rows
    /\ applied' = TRUE
    /\ save_result' = Outcome("migrate", <<>>, {})

\* A facility is created from the values supplied; it is stored when it is
\* clean.
CreateFacility(supplied) ==
    /\ Len(facilities) < MaxFacilities
    /\ DOMAIN supplied \subseteq DOMAIN fac_fields
    /\ LET record == new_record(fac_fields, supplied)
           errors == clean_errors(fac_fields, record)
       IN  /\ facilities' = IF errors = {} THEN Append(facilities, record) ELSE facilities
           /\ save_result' = Outcome("create", supplied, errors)
    /\ UNCHANGED <<applied, fac_fields>>

\* Some fields of a stored facility are set and it is saved; the change is
\* stored when the record is clean.
SaveFacility(i, supplied) ==
    /\ i \in DOMAIN facilities
    /\ supplied # <<>>
    /\ DOMAIN supplied \subseteq DOMAIN fac_fields
    /\ LET record == changed_record(facilities[i], supplied)
           errors == clean_errors(fac_fields, record)
       IN  /\ facilities' = IF errors = {} THEN [facilities EXCEPT ![i] = record]
                            ELSE facilities
           /\ save_result' = Outcome("save", supplied, errors)
    /\ UNCHANGED <<applied, fac_fields>>

MigrationInit ==
    /\ applied = FALSE
    /\ fac_fields = FieldsBefore
    /\ facilities = <<>>
    /\ save_result = Outcome("none", <<>>, {})

(***************************************************************************)
(*                            SPECIFICATIONS                               *)
(***************************************************************************)

InitRdap == RdapInit /\ ClientInit /\ KeysIdle /\ MigrationInit

NextRdap ==
    \/ setup_module /\ UNCHANGED <<clientVars, keyVars, migVars>>
    \/ teardown_module /\ UNCHANGED <<clientVars, keyVars, migVars>>
    \/ \E asn \in SampleASNs : Lookup(asn) /\ UNCHANGED <<clientVars, keyVars, migVars>>

SpecRdap == InitRdap /\ [][NextRdap]_vars

InitClient == RdapIdle /\ ClientInit /\ KeysIdle /\ MigrationInit

NextClient ==
    \/ \E kwargs \in SampleKwargs : Construct(kwargs) /\ UNCHANGED <<rdapVars, keyVars, migVars>>
    \/ \E a \in SampleArgs, res \in SampleResponses :
          Request(a, res) /\ UNCHANGED <<rdapVars, keyVars, migVars>>

SpecClient == InitClient /\ [][NextClient]_vars

InitApiKeys == RdapIdle /\ ClientInit /\ KeysInit /\ MigrationInit

NextApiKeys ==
    \/ setUpTestData /\ UNCHANGED <<rdapVars, clientVars, migVars>>
    \/ setUp /\ UNCHANGED <<rdapVars, clientVars, migVars>>
    \/ \E c \in ClientNames, a \in TestArgs :
          ClientRequest(c, a) /\ UNCHANGED <<rdapVars, clientVars, migVars>>
    \/ test_zz_org_admin_004_DELETE_org /\ UNCHANGED <<rdapVars, clientVars, migVars>>
    \/ tearDown /\ UNCHANGED <<rdapVars, clientVars, migVars>>

SpecApiKeys == InitApiKeys /\ [][NextApiKeys]_vars

InitMigration == RdapIdle /\ ClientInit /\ KeysIdle /\ MigrationInit

NextMigration ==
    \/ Migrate /\ UNCHANGED <<rdapVars, clientVars, keyVars>>
    \/ \E supplied \in SampleSupplied :
          CreateFacility(supplied) /\ UNCHANGED <<rdapVars, clientVars, keyVars>>
    \/ \E i \in 1 .. MaxFacilities, supplied \in SampleSupplied :
          SaveFacility(i, supplied) /\ UNCHANGED <<rdapVars, clientVars, keyVars>>

SpecMigration == InitMigration /\ [][NextMigration]_vars

(***************************************************************************)
(*                      PROPERTIES: RDAP OVERRIDE                          *)
(***************************************************************************)

\* C8: while the override installed by setup_module is bound, get_asn
\* returns RdapAsn(override_result), the prepared result, for every ASN of
\* the override range, and every ASN outside the range raises
\* RdapNotFoundError.
C8_OverrideOutcomes ==
    lookup.bound = "override" =>
        IF lookup.asn \in ASN_RANGE_OVERRIDE
        THEN lookup.outcome = "RdapAsn" /\ lookup.payload = "rdap_override.json"
        ELSE lookup.outcome = "RdapNotFoundError"

\* C10: RdapLookup.get_asn is the original function, the one captured at
\* import, before setup_module and after every teardown_module, it is the
\* override after every setup_module, and the function teardown_module puts
\* back is never the override.
C10_LookupRestored ==
    /\ RdapLookup_get_asn = "original"
    /\ module_phase \in {"imported", "torn_down"} => get_asn = "original"
    /\ module_phase = "set_up" => get_asn = "override"

\* A lookup was answered by the override, and teardown_module has run since.
C10_Witness ==
    /\ module_phase = "torn_down"
    /\ lookup.bound = "override"
    /\ get_asn = "original"

(***************************************************************************)
(*                      PROPERTIES: MIGRATION 0072                         *)
(***************************************************************************)

\* What a caller who knows nothing of the added fields supplies.
SuppliedWithoutAddedFields == {s \in SampleSupplied : DOMAIN s \cap AddedFields = {}}

\* With the migration applied, a facility with a name is accepted when it is
\* created without the added fields, and so is a stored facility saved
\* without them.
AcceptedWithoutAddedFields ==
    applied =>
        /\ \A s \in SuppliedWithoutAddedFields :
              "name" \in DOMAIN s => clean_errors(fac_fields, new_record(fac_fields, s)) = {}
        /\ \A i \in DOMAIN facilities, s \in SuppliedWithoutAddedFields :
              clean_errors(fac_fields, changed_record(facilities[i], s)) = {}

\* The step that applies the migration adds and changes nothing else: the
\* model keeps its fields as they were and gains the three added ones, no
\* record is added or dropped, every record keeps the value of every field
\* it had, and has None, None and "" in the added ones.
MigrationStepIsAdditive ==
    (~applied /\ applied') =>
        /\ DOMAIN fac_fields' = DOMAIN fac_fields \cup
                                {"offered_power", "offered_resilience", "offered_space"}
        /\ \A f \in DOMAIN fac_fields : fac_fields'[f] = fac_fields[f]
        /\ DOMAIN facilities' = DOMAIN facilities
        /\ \A i \in DOMAIN facilities :
              /\ \A f \in DOMAIN facilities[i] : facilities'[i][f] = facilities[i][f]
              /\ facilities'[i]["offered_power"] = PyNone
              /\ facilities'[i]["offered_space"] = PyNone
              /\ facilities'[i]["offered_resilience"] = PyStr("")

\* C6: migration 0072 is purely additive and the three fields it adds are
\* optional: applying it leaves every existing field of every facility
\* record unchanged and gives each record offered_power = None,
\* offered_space = None and offered_resilience = "", and afterwards a
\* facility can be created or saved without supplying any of the three.
C6_AdditiveAndOptional ==
    [][MigrationStepIsAdditive]_vars /\ []AcceptedWithoutAddedFields

\* The migration has just been applied to a table of two records.
C6_Witness ==
    /\ applied
    /\ save_result = Outcome("migrate", <<>>, {})
    /\ Len(facilities) = 2
    /\ facilities[1]["name"] = PyStr("Fac A")
    /\ facilities[2]["name"] = PyStr("Fac B")
    /\ facilities[2]["offered_resilience"] = PyStr("")

\* The four tiers of offered resilience, by the labels the choices show
\* them with ("None/Best Effort" is shown as "None (Best Effort)").
ResilienceTiers == {"Not Disclosed", "None (Best Effort)", "N+1", "2N"}

\* Values a caller may try to store in offered_resilience.
ResilienceProbes ==
    {PyNone, PyInt(1), PyStr(""), PyStr("Not Disclosed"), PyStr("None (Best Effort)"),
     PyStr("N+1"), PyStr("2N"), PyStr("n+1"), PyStr("None/Best Effort"), PyStr("3N"),
     PyStr("Tier 9")}

\* The tiers a value of the field is shown as (get_offered_resilience_display).
TiersOf(field, v) == {c[2] : c \in {d \in field.choices : d[1] = v.value}}

\* C7: every value offered_resilience admits denotes one of the four tiers
\* Not Disclosed, None/Best Effort, N+1 and 2N, each of the four tiers is
\* admitted, and the field's default is one of the admitted values.
C7_ResilienceTiers ==
    applied =>
        LET field == fac_fields["offered_resilience"]
            admitted == {v \in ResilienceProbes : clean_field(field, v) = "ok"}
        IN  /\ \A v \in admitted :
                  /\ v.type = "str"
                  /\ TiersOf(field, v) # {}
                  /\ TiersOf(field, v) \subseteq ResilienceTiers
            /\ \A t \in ResilienceTiers : \E v \in admitted : t \in TiersOf(field, v)
            /\ field.default \in admitted
            /\ \E c \in field.choices : c[1] = field.default.value

\* A facility with the tier 2N is stored.
C7_Witness ==
    /\ applied
    /\ \E i \in DOMAIN facilities : facilities[i]["offered_resilience"] = PyStr("2N")

(***************************************************************************)
(*                 PROPERTIES: THE CLIENT AND ITS RESPONSES                *)
(***************************************************************************)

\* The headers of a request made with the key.
KeyHeader(key) == {<<"HTTP_AUTHORIZATION", "Api-Key " \o key>>}

\* C1: a client is in one authentication mode for its whole life.  One
\* constructed with a key keeps that key, is never force-authenticated, and
\* every request it sends carries "Authorization: Api-Key <key>" with that
\* key; one constructed without a key is force-authenticated as user_inst
\* (the user named, or guest) and sends no Api-Key header.  No _request
\* changes the mode or the key.
C1_OneAuthenticationMode ==
    client.raised = "none" =>
        IF init_kwargs.key.type # "NoneType"
        THEN /\ client.key = init_kwargs.key
             /\ client.force_user = NoUser
             /\ client.credentials = KeyHeader(init_kwargs.key.value)
             /\ sent # NoSent =>
                   /\ sent.extra = KeyHeader(init_kwargs.key.value)
                   /\ sent.force_user = NoUser
        ELSE /\ client.key = PyNone
             /\ client.user_inst = (IF init_kwargs.user.type = "str" /\ init_kwargs.user.value # ""
                                    THEN init_kwargs.user.value ELSE "guest")
             /\ client.force_user = client.user_inst
             /\ client.credentials = {}
             /\ sent # NoSent =>
                   /\ sent.extra = {}
                   /\ sent.force_user = client.user_inst

\* A client constructed with the key "key2" has sent a request and been
\* answered.
C1_Witness ==
    /\ client.raised = "none"
    /\ init_kwargs.key = PyStr("key2")
    /\ sent.extra = KeyHeader("key2")
    /\ returned.raised = "none"
    /\ returned.status_code = 200

\* C5 as claimed: without a url the request goes to /api/{typ}/{id} if an id
\* is given, id = 0 included, and to /api/{typ} otherwise; a url that is
\* given is used unchanged; the verb is the one the method argument names.
C5_UrlWhenIdOrUrlGiven ==
    sent # NoSent =>
        /\ sent.verb = Lower(Arg(call_args.method, PyStr("GET")).value)
        /\ IF call_args.url.type # "omitted"
           THEN sent.url = call_args.url.value
           ELSE IF call_args.id.type # "omitted"
                THEN sent.url = "/api/" \o call_args.typ \o "/" \o ToString(call_args.id.value)
                ELSE sent.url = "/api/" \o call_args.typ

\* C5, amended: without a url, or with an empty one, the request goes to
\* /api/{typ}/{id} if an id other than 0 is given and to /api/{typ} if the
\* id is 0 or left out; a url that is given and not empty is used unchanged;
\* the verb is the one the method argument names.
C5_UrlWhenIdOrUrlTruthy ==
    sent # NoSent =>
        /\ sent.verb = Lower(Arg(call_args.method, PyStr("GET")).value)
        /\ IF call_args.url.type # "omitted" /\ call_args.url.value # ""
           THEN sent.url = call_args.url.value
           ELSE IF call_args.id.type # "omitted" /\ call_args.id.value # 0
                THEN sent.url = "/api/" \o call_args.typ \o "/" \o ToString(call_args.id.value)
                ELSE sent.url = "/api/" \o call_args.typ

\* A DELETE was requested for type net with the id 0 and no url.
C5_Witness ==
    /\ call_args.typ = "net"
    /\ call_args.id = PyInt(0)
    /\ call_args.url = Omitted
    /\ call_args.method = PyStr("DELETE")
    /\ sent.url = "/api/net"
    /\ sent.verb = "delete"

\* C9: _request returns a DummyResponse with the status code and the body
\* of the API's response, unless the response's charset is not utf-8, in
\* which case it fails its assertion; json() and data of what is returned
\* are the JSON decoding of the body, and read() is the body itself.
C9_ResponseCarriedUnchanged ==
    api_res # NoApiRes =>
        IF api_res.charset = "utf-8"
        THEN /\ returned.raised = "none"
             /\ returned.status_code = api_res.status_code
             /\ returned.content = api_res.content
             /\ DummyResponse_json(returned) = json_loads(api_res.content)
             /\ DummyResponse_data(returned) = json_loads(api_res.content)
             /\ DummyResponse_read(returned) = api_res.content
        ELSE returned.raised = "AssertionError"

\* A 403 response with the body [1, 2] was returned, and decodes to the
\* list.
C9_Witness ==
    /\ api_res.charset = "utf-8"
    /\ returned.raised = "none"
    /\ returned.status_code = 403
    /\ DummyResponse_read(returned) = "[1, 2]"
    /\ DummyResponse_json(returned).items = <<1, 2>>

(***************************************************************************)
(*                 PROPERTIES: API KEYS AND PERMISSIONS                    *)
(***************************************************************************)

\* The key each client of setUp authenticates with.
KeyOf(c) ==
    CASE c = "db_user" -> "user_key"
      [] c = "db_org_admin" -> "rw_org_key"
      [] OTHER -> "r_org_key"

\* The read-write organization key holds every grant of that
\* organization's admin group and the read-only organization key every
\* grant of that organization's member group, with the same flags.
KeysHoldGroupGrants ==
    /\ group_perms[AdminGroup(ORG_RW)] \subseteq api_keys["rw_org_key"].perms
    /\ group_perms[MemberGroup(ORG_R)] \subseteq api_keys["r_org_key"].perms

\* The last request was answered by the grants of the key it was made with,
\* and is answered the same when the client is named for any other user.
AnsweredByKeyAlone ==
    LET key == KeyOf(last_request.client)
        answer == Decide(api_keys[key].perms, last_request.existing, last_request.sent)
    IN  /\ last_request.status = answer
        /\ \A u \in UserNames :
              Serve(api_keys, last_request.existing,
                    request_sent(
                        DummyRestClientWithKeyAuth_init([user |-> PyStr(u), key |-> PyStr(key)]),
                        last_request.args)) = answer

\* C2: after setUp the read-write organization key holds every grant of
\* that organization's admin group and the read-only organization key every
\* grant of that organization's member group, with the same flags; and a
\* request made with a key is answered by the key's grants alone, the same
\* whichever user the client is named for and whatever that user holds.
C2_KeyBearsItsOwnPermissions ==
    test_phase = "in_test" =>
        /\ KeysHoldGroupGrants
        /\ last_request # NoRequest => AnsweredByKeyAlone

\* The client named for api_test_org_admin deleted an organization with the
\* read-write key while that user held no grant at all.
C2_Witness ==
    /\ test_phase = "in_test"
    /\ last_request.client = "db_org_admin"
    /\ last_request.sent.verb = "delete"
    /\ last_request.status = 204
    /\ user_perms["api_test_org_admin"] = {}
    /\ Grant(OrgNamespace(ORG_RW), PERM_CRUD) \in api_keys["rw_org_key"].perms

\* Concrete resource paths: the organizations and what lies below them, and
\* paths outside peeringdb.organization.
PathSuffixes ==
    {<<>>,
     <<"network", "1">>,
     <<"network", "1", "poc_set", "users">>,
     <<"network", "1", "poc_set", "private">>,
     <<"internetexchange", "1", "ixf_ixp_member_list_url", "public">>,
     <<"internetexchange", "1", "ixf_ixp_member_list_url", "users">>,
     <<"internetexchange", "1", "ixf_ixp_member_list_url", "private">>}

SamplePaths ==
    {OrgNamespace(id) \o suffix : id \in 1 .. DeletableOrg, suffix \in PathSuffixes}
    \cup {<<"peeringdb", "organization">>, <<"peeringdb">>, <<"peeringdb", "user", "1">>}

UnderOrganization(path) == Matches(<<"peeringdb", "organization">>, path)

\* C3: the effective permission of a principal on a path is the flag of the
\* most specific pattern among its grants that matches the path.  With the
\* fixture's grants a member of the user group has exactly 0x04 on
\* peeringdb.organization.<SUGGEST_ENTITY_ORG> and exactly 0x01 on every
\* other path under peeringdb.organization that the grant on the suggest
\* organization does not match; a guest has 0x01 on every path under
\* peeringdb.organization; nobody has anything outside it.
C3_MostSpecificGrant ==
    test_phase # "loaded" =>
        /\ \A group \in {"guest", "user"}, path \in SamplePaths :
              LET grants == group_perms[group]
                  matching == {g \in grants : Matches(g.namespace, path)}
              IN  IF matching = {} THEN Resolve(grants, path) = 0
                  ELSE \E g \in matching :
                          /\ Resolve(grants, path) = g.permission
                          /\ \A h \in matching : Len(h.namespace) <= Len(g.namespace)
        /\ Resolve(group_perms["user"], OrgNamespace(SUGGEST_ENTITY_ORG)) = 4
        /\ \A path \in SamplePaths :
              /\ UnderOrganization(path) /\ ~Matches(OrgNamespace(SUGGEST_ENTITY_ORG), path)
                    => Resolve(group_perms["user"], path) = 1
              /\ UnderOrganization(path) => Resolve(group_perms["guest"], path) = 1
              /\ ~UnderOrganization(path) => Resolve(group_perms["user"], path) = 0

\* The fixture is in place with organization 2 as the suggest organization:
\* the user group has create there and read on organization 3.
C3_Witness ==
    /\ test_phase = "class_ready"
    /\ SUGGEST_ENTITY_ORG = 2
    /\ Resolve(group_perms["user"], OrgNamespace(2)) = 4
    /\ Resolve(group_perms["user"], OrgNamespace(3)) = 1
    /\ Resolve(group_perms["user"], OrgNamespace(2) \o <<"network", "1", "poc_set", "users">>) = 1

\* C4: in test_zz_org_admin_004_DELETE_org the client authenticated with
\* the organization key the test creates deletes the organization the test
\* has created: the DELETE is answered as a success and the test passes.
C4_DeleteSucceeds ==
    delete_test.ran => delete_test.raised = "none" /\ delete_test.status = 204

=============================================================================
